---- MODULE Spec2Model ----
(***************************************************************************)
(* Mood Story Generator API (src/main.py): the five HTTP handlers, the     *)
(* rule-based story generator and the document store they talk to.         *)
(*                                                                         *)
(* Text is modelled by TLA+ strings (Len, \o and SubSeq act on them).      *)
(* The source's non-ASCII glyphs are written in ASCII: the non-breaking    *)
(* hyphen as "-", the em dash as "--", the typographic apostrophe as "'",  *)
(* the check mark as "[ok]", the cross as "[x]" and the warning sign as    *)
(* "[!]"; the texts of the model are ASCII.                                *)
(* An Optional[str] is None (the empty tuple) or Some(s) = <<s>>.  *)
(* A Dict[str, float] is the sequence of its <<key, value>> items in       *)
(* insertion order, with scores in hundredths.                             *)
(***************************************************************************)
EXTENDS Integers, Sequences, FiniteSets, TLC

VARIABLES store, oid_counter, request, env, response

vars == <<store, oid_counter, request, env, response>>

(***************************************************************************)
(* Bounds of the model and constants of the program.                       *)
(***************************************************************************)
MaxStore == 3
MaxLimit == 3
MaxCollections == 11
MaxErrLen == 122

StoreErrCut == 120
FetchErrCut == 120
TestErrCut == 50
CollectionsCut == 10
DefaultLimit == 10

(***************************************************************************)
(* Python values and string methods.                                       *)
(***************************************************************************)
None == <<>>
Some(s) == <<s>>

Min(a, b) == IF a <= b THEN a ELSE b

CharAt(s, i) == SubSeq(s, i, i)

\* s[:n]
Truncate(s, n) == SubSeq(s, 1, Min(n, Len(s)))

\* s[i:] for a 1-based i
Drop(s, i) == IF i > Len(s) THEN "" ELSE SubSeq(s, i, Len(s))

\* str.startswith
StartsWith(s, p) == Len(s) >= Len(p) /\ SubSeq(s, 1, Len(p)) = p

\* str.endswith
EndsWith(s, p) == Len(s) >= Len(p) /\ SubSeq(s, Len(s) - Len(p) + 1, Len(s)) = p

\* str.find: the 1-based position of the first occurrence, 0 if none
Find(s, pat) ==
    LET hits == {i \in 1..(Len(s) - Len(pat) + 1) : SubSeq(s, i, i + Len(pat) - 1) = pat}
    IN IF hits = {} THEN 0 ELSE CHOOSE i \in hits : \A j \in hits : i <= j

Contains(s, pat) == Find(s, pat) # 0

\* the ASCII characters str.strip() removes: space, \t, \n, \x0b, \x0c, \r and
\* \x1c-\x1f (the vertical tab and the four separators stand in the literals
\* as the characters themselves, TLA+ having no escape for them)
Whitespace == {" ", "\t", "\n", "", "\f", "\r", "", "", "", ""}

RECURSIVE FirstNonSpace(_, _)
FirstNonSpace(s, i) ==
    IF i > Len(s) THEN i
    ELSE IF CharAt(s, i) \in Whitespace THEN FirstNonSpace(s, i + 1) ELSE i

RECURSIVE LastNonSpace(_, _)
LastNonSpace(s, j) ==
    IF j < 1 THEN j
    ELSE IF CharAt(s, j) \in Whitespace THEN LastNonSpace(s, j - 1) ELSE j

\* str.strip
Strip(s) ==
    LET i == FirstNonSpace(s, 1)
        j == LastNonSpace(s, Len(s))
    IN IF i > j THEN "" ELSE SubSeq(s, i, j)

UpperToLower ==
    [A |-> "a", B |-> "b", C |-> "c", D |-> "d", E |-> "e", F |-> "f", G |-> "g",
     H |-> "h", I |-> "i", J |-> "j", K |-> "k", L |-> "l", M |-> "m", N |-> "n",
     O |-> "o", P |-> "p", Q |-> "q", R |-> "r", S |-> "s", T |-> "t", U |-> "u",
     V |-> "v", W |-> "w", X |-> "x", Y |-> "y", Z |-> "z"]

LowerChar(c) == IF c \in DOMAIN UpperToLower THEN UpperToLower[c] ELSE c

RECURSIVE LowerFrom(_, _)
LowerFrom(s, i) ==
    IF i > Len(s) THEN "" ELSE LowerChar(CharAt(s, i)) \o LowerFrom(s, i + 1)

\* str.lower
Lower(s) == LowerFrom(s, 1)

Digit == <<"0", "1", "2", "3", "4", "5", "6", "7", "8", "9">>

\* str() of an identifier
RECURSIVE Str(_)
Str(n) == IF n < 10 THEN Digit[n + 1] ELSE Str(n \div 10) \o Digit[(n % 10) + 1]

\* sep.join(keys)
RECURSIVE Join(_, _)
Join(keys, sep) ==
    IF keys = <<>> THEN ""
    ELSE IF Len(keys) = 1 THEN keys[1]
    ELSE keys[1] \o sep \o Join(Tail(keys), sep)

\* template.format(hint=value): the replacement field is substituted
Format(template, value) ==
    LET i == Find(template, "{hint}")
    IN IF i = 0 THEN template
       ELSE SubSeq(template, 1, i - 1) \o value \o Drop(template, i + Len("{hint}"))

\* a text of n characters
RECURSIVE Rep(_, _)
Rep(c, n) ==
    IF n = 0 THEN ""
    ELSE LET half == Rep(c, n \div 2)
         IN half \o half \o (IF n % 2 = 1 THEN c ELSE "")

(***************************************************************************)
(* The story generator.                                                    *)
(***************************************************************************)
templates ==
    [happy |->
        "Sunlight spilled across the scene like a promise kept. With a grin that could start a parade, "
        \o "you stepped into a day that felt tailor-made--small wins humming in the background, "
        \o "good news waiting just around the corner. {hint}",
     sad |->
        "The world moved softly, as if it knew to speak in whispers today. Even through the gray, "
        \o "there was kindness--warm tea, a gentle song, a friend who stays. Your heart carried rain, "
        \o "but it also carried flowers waiting to bloom. {hint}",
     angry |->
        "The air crackled--electric, decisive. Your fire didn't destroy; it forged. Today you chose "
        \o "to build boundaries like bright lines on a map, turning heat into momentum and motion into change. {hint}",
     fearful |->
        "Shadows stretched long, but courage walked beside you, quiet and steady. Each careful step "
        \o "rewrote a small fear into a fearless line. Your breath became an anchor, and the unknown grew smaller. {hint}",
     disgusted |->
        "Clarity arrived like a clean breeze through a cluttered room. You saw what didn't belong, "
        \o "and chose better--cleaner intentions, truer paths, a standard that honored your spirit. {hint}",
     surprised |->
        "A sudden spark--like confetti popped in slow motion. The unexpected turned into delight, "
        \o "and the story bent toward wonder. You followed curiosity and found a door you didn't know you needed. {hint}",
     neutral |->
        "Balanced and unhurried, the day unfolded like neat pages in a journal. Quiet details glowed-- "
        \o "a steady rhythm, a tidy list, a calm horizon. In the middle of ordinary, you found peace. {hint}"]

\* mood = (mood or "neutral").lower()
normalized_mood(mood) == Lower(IF mood = "" THEN "neutral" ELSE mood)

\* base = templates.get(mood, templates["neutral"])
base_template(mood) ==
    IF mood \in DOMAIN templates THEN templates[mood] ELSE templates["neutral"]

\* hint_text = ("" if not hint else f"\n\nA note from you: {hint.strip()}")
hint_text(hint) ==
    IF hint = None \/ hint = Some("") THEN ""
    ELSE "\n\nA note from you: " \o Strip(hint[1])

\* key=lambda x: x[1] or 0
score_key(item) == IF item[2] = 0 THEN 0 ELSE item[2]

\* the position of the first item with the largest key
FirstMax(items) ==
    CHOOSE i \in 1..Len(items) :
        /\ \A j \in 1..Len(items) : score_key(items[j]) <= score_key(items[i])
        /\ \A j \in 1..(i - 1) : score_key(items[j]) < score_key(items[i])

Remove(items, i) == SubSeq(items, 1, i - 1) \o SubSeq(items, i + 1, Len(items))

\* sorted(scores.items(), key=..., reverse=True): stable, so equal keys keep
\* their insertion order
RECURSIVE sorted_scores(_)
sorted_scores(items) ==
    IF items = <<>> THEN <<>>
    ELSE LET i == FirstMax(items)
         IN <<items[i]>> \o sorted_scores(Remove(items, i))

\* tone without the [:3] slice
tone_unsliced(sorted, mood) ==
    IF sorted # <<>>
    THEN Join([i \in 1..Len(sorted) |-> sorted[i][1]], ", ")
    ELSE mood

\* ", ".join([k for k, v in sorted_scores[:3]]) if sorted_scores else mood
tone(sorted, mood) ==
    IF sorted # <<>>
    THEN Join([i \in 1..Min(3, Len(sorted)) |-> sorted[i][1]], ", ")
    ELSE mood

_generate_rule_based_story(mood0, hint, scores) ==
    LET mood == normalized_mood(mood0)
        base == base_template(mood)
        footer == "\n\nMood palette today: " \o tone(sorted_scores(scores), mood) \o "."
    IN Strip(Format(base, hint_text(hint)) \o footer)

mood_map ==
    [happy |-> "sunny", sad |-> "rainy", angry |-> "flame", fearful |-> "moon",
     disgusted |-> "leaf", surprised |-> "spark", neutral |-> "cloud"]

\* illustration_key without .lower()
illustration_key_exact(mood) ==
    IF mood \in DOMAIN mood_map THEN mood_map[mood] ELSE "cloud"

\* illustration_key = mood_map.get(req.mood.lower(), "cloud")
illustration_key(mood) ==
    LET m == Lower(mood) IN IF m \in DOMAIN mood_map THEN mood_map[m] ELSE "cloud"

(***************************************************************************)
(* The document store behind database.create_document and                  *)
(* database.get_documents: one collection, "storyentry", kept as the       *)
(* sequence of its documents in insertion order.  oid_counter is the next  *)
(* identifier the store assigns.                                           *)
(***************************************************************************)
\* the document as the store keeps it: the saved fields and the assigned _id
stored_document(document, oid) ==
    [k \in DOMAIN document \cup {"_id"} |-> IF k = "_id" THEN oid ELSE document[k]]

\* create(collection, document) -> id: inserts one document and returns the
\* identifier assigned to it, in its public string form
create_document(st, oid, document) ==
    [store |-> Append(st, stored_document(document, oid)), id |-> Str(oid)]

\* the arrangements of the documents at the positions idx of the collection
Arrangements(st, idx) ==
    {[k \in 1..Cardinality(idx) |-> st[f[k]]] :
        f \in {g \in [1..Cardinality(idx) -> idx] :
                 \A k, l \in 1..Cardinality(idx) : k # l => g[k] # g[l]}}

\* list(collection, {}, limit): limit of the documents when there are more,
\* all of them otherwise, as copies of what is stored; which ones and in what
\* order, the store decides
get_documents(st, limit) ==
    UNION {Arrangements(st, idx) :
             idx \in {T \in SUBSET (1..Len(st)) : Cardinality(T) = Min(limit, Len(st))}}

(***************************************************************************)
(* The HTTP handlers.                                                      *)
(***************************************************************************)
HTTPException(status_code, detail) == [status |-> status_code, detail |-> detail]

Ok(body) == [status |-> 200, body |-> body]

\* an exception that escapes the handler: the framework answers 500, with no
\* detail of the handler's
Raised(text) == [status |-> 500, exception |-> text]

NoEnv == [kind |-> "none"]

\* GET /
read_root ==
    /\ request' = [op |-> "read_root"]
    /\ env' = NoEnv
    /\ response' = Ok([message |-> "Mood Story Generator API is running"])
    /\ UNCHANGED <<store, oid_counter>>

\* GET /api/hello
hello ==
    /\ request' = [op |-> "hello"]
    /\ env' = NoEnv
    /\ response' = Ok([message |-> "Hello from the backend API!"])
    /\ UNCHANGED <<store, oid_counter>>

\* collections[:10]
collections_shown(collections) == SubSeq(collections, 1, Min(CollectionsCut, Len(collections)))

\* f"...Error: {str(e)[:50]}"
test_error(label, error) == label \o Truncate(error, TestErrCut)

\* What GET /test answers when database.db is in condition e: the import
\* raises, db is None, reading db.name raises (caught by the outer except, after
\* lines 65-66 ran), list_collection_names raises (the inner except), or all
\* works.  e.faults is the chain of exceptions in play: faults[1] says of the
\* exception raised what an `except Exception as e: ... str(e)` handler meets,
\* "text" (caught, str(e) gives a text), "raises" (caught, str(e) raises
\* faults[2] inside the handler) or "base" (not an Exception: no handler of
\* this function catches it).  e.error is the text of the last exception of
\* the chain that is reported or leaves the function.
\*   - the outer handler (77-78) reports a "text" exception; a "raises" one
\*     makes line 78 raise out of the function, a "base" one passes it by;
\*   - the inner handler (73-74) reports a "text" exception; a "raises" one
\*     makes line 74 raise faults[2] inside the outer try, so the outer handler
\*     meets faults[2]; a "base" one passes both handlers by.
test_response(e) ==
    LET response0 ==
            [backend |-> "[ok] Running",
             database |-> "[x] Not Available",
             database_url |-> None,
             database_name |-> None,
             connection_status |-> "Not Connected",
             collections |-> <<>>]
        available ==
            [response0 EXCEPT
                !.database = "[ok] Available",
                !.database_url = Some(IF e.url_set THEN "[ok] Set" ELSE "[x] Not Set")]
        connected ==
            [available EXCEPT
                !.database_name = Some(IF e.has_name THEN e.name ELSE "[ok] Connected"),
                !.connection_status = "Connected"]
        outer_except(body, k) ==
            IF e.faults[k] = "text"
            THEN Ok([body EXCEPT !.database = test_error("[x] Error: ", e.error)])
            ELSE Raised(e.error)
    IN CASE e.db = "import_fails" -> outer_except(response0, 1)
         [] e.db = "name_fails" -> outer_except(available, 1)
         [] e.db = "none" ->
              Ok([response0 EXCEPT !.database = "[!]  Available but not initialized"])
         [] e.db = "list_fails" ->
              IF e.faults[1] = "text"
              THEN Ok([connected EXCEPT
                          !.database = test_error("[!]  Connected but Error: ", e.error)])
              ELSE IF e.faults[1] = "raises"
                   THEN outer_except(connected, 2)
                   ELSE Raised(e.error)
         [] e.db = "working" ->
              Ok([connected EXCEPT
                     !.collections = collections_shown(e.collections),
                     !.database = "[ok] Connected & Working"])

\* GET /test
test_database(Envs) ==
    \E e \in Envs :
        /\ request' = [op |-> "test_database"]
        /\ env' = e
        /\ response' = test_response(e)
        /\ UNCHANGED <<store, oid_counter>>

image_prefix == "data:image/"

\* valid_image with the prefix's "/" left out
valid_image_short(image_data) == StartsWith(image_data, "data:image")

\* req.image_data.startswith("data:image/")
valid_image(image_data) == StartsWith(image_data, image_prefix)

\* data_to_save keeping the normalized mood instead of the submitted one
data_to_save_normalized(req, story_text, illustration) ==
    [image_data |-> req.image_data,
     mood |-> normalized_mood(req.mood),
     expressions |-> req.expressions,
     story |-> story_text,
     illustration |-> illustration]

data_to_save(req, story_text, illustration) ==
    [image_data |-> req.image_data,
     mood |-> req.mood,
     expressions |-> req.expressions,
     story |-> story_text,
     illustration |-> illustration]

\* store_error_detail without the [:120] slice
store_error_detail_uncut(error) == "Failed to store story: " \o error

\* f"Failed to store story: {str(e)[:120]}"
store_error_detail(error) == "Failed to store story: " \o Truncate(error, StoreErrCut)

\* f"Failed to fetch stories: {str(e)[:120]}"
fetch_error_detail(error) == "Failed to fetch stories: " \o Truncate(error, FetchErrCut)

\* story_text = _generate_rule_based_story(req.mood, req.prompt_hint, req.expressions)
\* and the illustration key chosen after it
story_and_illustration(req) ==
    [story |-> _generate_rule_based_story(req.mood, req.prompt_hint, req.expressions),
     illustration |-> illustration_key(req.mood)]

StoryRequest(image_data, mood, expressions, prompt_hint) ==
    [op |-> "generate_story", image_data |-> image_data, mood |-> mood,
     expressions |-> expressions, prompt_hint |-> prompt_hint]

\* POST /api/generate-story
generate_story(Requests, Envs) ==
    \E req \in Requests, e \in Envs :
        LET made == story_and_illustration(req)
            created == create_document(store, oid_counter,
                                       data_to_save(req, made.story, made.illustration))
        IN /\ request' = req
           /\ IF ~valid_image(req.image_data)
              THEN /\ env' = NoEnv
                   /\ response' = HTTPException(400,
                          "image_data must be a data URL starting with data:image/")
                   /\ UNCHANGED <<store, oid_counter>>
              ELSE IF e.fails
              THEN /\ env' = e
                   /\ response' = IF e.printable
                                 THEN HTTPException(500, store_error_detail(e.error))
                                 ELSE Raised(e.error)
                   /\ UNCHANGED <<store, oid_counter>>
              ELSE /\ Len(store) < MaxStore
                   /\ env' = e
                   /\ store' = created.store
                   /\ oid_counter' = oid_counter + 1
                   /\ response' = Ok([id |-> created.id, mood |-> req.mood,
                                      story |-> made.story,
                                      illustration |-> made.illustration])

\* limit: int = 10, for the positive limits
Limits == (1..MaxLimit) \cup {DefaultLimit}

\* sanitize reading d["_id"] where it pops it
sanitize_keep_id(d) ==
    IF "_id" \in DOMAIN d
    THEN [k \in DOMAIN d \cup {"id"} |-> IF k = "id" THEN Str(d["_id"]) ELSE d[k]]
    ELSE d

\* if "_id" in d: d["id"] = str(d.pop("_id"))
sanitize(d) ==
    IF "_id" \in DOMAIN d
    THEN [k \in (DOMAIN d \ {"_id"}) \cup {"id"} |-> IF k = "id" THEN Str(d["_id"]) ELSE d[k]]
    ELSE d

\* list_stories when the documents it renames are the stored ones
list_stories_in_place(Envs) ==
    \E limit \in Limits, e \in Envs :
        /\ request' = [op |-> "list_stories", limit |-> limit]
        /\ env' = e
        /\ IF e.fails
           THEN /\ response' = IF e.printable
                              THEN HTTPException(500, fetch_error_detail(e.error))
                              ELSE Raised(e.error)
                /\ UNCHANGED <<store, oid_counter>>
           ELSE \E docs \in get_documents(store, limit) :
                /\ response' = Ok([i \in 1..Len(docs) |-> sanitize(docs[i])])
                /\ store' = [i \in 1..Len(store) |->
                               IF \E k \in 1..Len(docs) : docs[k] = store[i]
                               THEN sanitize(store[i]) ELSE store[i]]
                /\ UNCHANGED oid_counter

\* GET /api/stories?limit=N.  The documents renamed are the ones get_documents
\* returned; the collection is in MongoDB (lines 144 and 164) and is not written.
list_stories(Envs) ==
    \E limit \in Limits, e \in Envs :
        /\ request' = [op |-> "list_stories", limit |-> limit]
        /\ env' = e
        /\ IF e.fails
           THEN /\ response' = IF e.printable
                              THEN HTTPException(500, fetch_error_detail(e.error))
                              ELSE Raised(e.error)
                /\ UNCHANGED <<store, oid_counter>>
           ELSE \E docs \in get_documents(store, limit) :
                /\ response' = Ok([i \in 1..Len(docs) |-> sanitize(docs[i])])
                /\ UNCHANGED <<store, oid_counter>>

(***************************************************************************)
(* Inputs.                                                                 *)
(***************************************************************************)
StoreOk == [kind |-> "store", fails |-> FALSE, error |-> "", printable |-> TRUE]

StoreFails(error) == [kind |-> "store", fails |-> TRUE, error |-> error, printable |-> TRUE]

\* the same condition with an exception whose __str__ raises
Unprintable(e) == [e EXCEPT !.printable = FALSE]

ErrLens == {0, 1, TestErrCut, TestErrCut + 1, StoreErrCut, MaxErrLen}

StoreEnvs ==
    {StoreOk, Unprintable(StoreFails("no text"))}
    \cup {StoreFails(Rep("e", n)) : n \in {0, StoreErrCut, MaxErrLen}}

Scores1 == <<<<"happy", 90>>, <<"neutral", 5>>, <<"sad", 4>>>>

Scores2 == <<<<"neutral", 10>>, <<"surprised", 60>>, <<"sad", 0>>, <<"angry", 30>>>>

ApiRequests ==
    {StoryRequest("data:image/png;base64,AAAA", "Happy", Scores1, None),
     StoryRequest("data:image/", "", <<>>, Some(" hi ")),
     StoryRequest("data:image/png;base64,AAAA", "SAD", Scores2, Some("rain")),
     StoryRequest("image/png;base64,AAAA", "Happy", Scores1, None),
     StoryRequest("data:image", "sad", <<>>, Some(" hi ")),
     StoryRequest("", "", Scores2, Some("")),
     StoryRequest(" data:image/png;base64,AAAA", "angry", Scores1, Some("x")),
     StoryRequest("DATA:IMAGE/png;base64,AAAA", "Fearful", Scores2, None)}

Diag(db, error, url_set, has_name, name, collections) ==
    [kind |-> "diag", db |-> db, error |-> error, faults |-> <<"text">>, url_set |-> url_set,
     has_name |-> has_name, name |-> name, collections |-> collections]

\* the same condition with another chain of exceptions
Faulty(e, faults) == [e EXCEPT !.faults = faults]

\* an exception met by one handler; one met by the inner handler and, when its
\* str raises, the second one met by the outer handler
OuterFaults == {<<"text">>, <<"raises">>, <<"base">>}

InnerFaults ==
    {<<"text">>, <<"base">>, <<"raises", "text">>, <<"raises", "raises">>, <<"raises", "base">>}

Collections(n) == [i \in 1..n |-> "c" \o Str(i)]

ApiDiagEnvs ==
    {Diag("import_fails", "cannot import name 'db' from 'database'", FALSE, FALSE, "", <<>>),
     Diag("none", "", FALSE, FALSE, "", <<>>),
     Diag("name_fails", "name failed", TRUE, FALSE, "", <<>>),
     Faulty(Diag("list_fails", "no text", TRUE, TRUE, "appdb", <<>>), <<"raises", "text">>),
     Faulty(Diag("list_fails", "no text", TRUE, TRUE, "appdb", <<>>), <<"raises", "raises">>),
     Diag("list_fails", "timed out", TRUE, TRUE, "appdb", <<>>),
     Diag("working", "", TRUE, TRUE, "appdb", Collections(MaxCollections)),
     Diag("working", "", FALSE, FALSE, "", Collections(1))}

\* db.name, when db has one
DbNames == {<<FALSE, "">>, <<TRUE, "appdb">>, <<TRUE, "test">>}

\* the conditions of database.db, every exception with a text.  The module is
\* loaded at line 6, so the import of line 63 fails with an ImportError only.
ReadableDiagEnvs ==
    {Diag("import_fails", Rep("e", n), FALSE, FALSE, "", <<>>) : n \in ErrLens}
    \cup {Diag("none", "", FALSE, FALSE, "", <<>>)}
    \cup {Diag("name_fails", Rep("e", x[1]), x[2], FALSE, "", <<>>) : x \in ErrLens \X BOOLEAN}
    \cup {Diag("list_fails", Rep("e", x[1]), x[2], x[3][1], x[3][2], <<>>) :
            x \in ErrLens \X BOOLEAN \X DbNames}
    \cup {Diag("working", "", x[1], x[2][1], x[2][2], Collections(x[3])) :
            x \in BOOLEAN \X DbNames \X (0..MaxCollections)}

DiagEnvs ==
    ReadableDiagEnvs
    \cup {Faulty(d, f) : d \in {x \in ReadableDiagEnvs : x.db = "name_fails"},
                         f \in OuterFaults}
    \cup {Faulty(d, f) : d \in {x \in ReadableDiagEnvs : x.db = "list_fails"},
                         f \in InnerFaults}

Moods ==
    {"happy", "sad", "angry", "fearful", "disgusted", "surprised", "neutral",
     "Happy", "SAD", "aNgRy", "NEUTRAL", "", "bored", " happy", "happy ", "sunny", "Cloud"}

Hints ==
    {None, Some(""), Some(" "), Some(" \n\t "), Some("hi"), Some("  be kind \n"), Some("a  b"),
     Some("hi"), Some(" hi "), Some("  ")}

ScoreKeys == {"happy", "neutral", "sad", "angry"}

ScoreVals == {-10, 0, 5, 90}

\* the expression mappings over these keys, in every insertion order
ScoreMaps ==
    UNION {{m \in [1..n -> ScoreKeys \X ScoreVals] :
                \A i, j \in 1..n : i # j => m[i][1] # m[j][1]} :
           n \in 0..Cardinality(ScoreKeys)}

StoryInputs ==
    {StoryRequest("data:image/", x[1], x[2], x[3]) :
        x \in (Moods \X {<<>>, Scores1} \X {None, Some(" hi ")})
              \cup ({"happy", "Sad", ""} \X {<<>>, Scores2} \X Hints)
              \cup ({"Happy", ""} \X ScoreMaps \X {None})}

(***************************************************************************)
(* The API: any sequence of requests, from an empty collection.            *)
(***************************************************************************)
NoResponse == [status |-> 0]

Init ==
    /\ store = <<>>
    /\ oid_counter = 1
    /\ request = [op |-> "none"]
    /\ env = NoEnv
    /\ response = NoResponse

Next ==
    \/ read_root
    \/ hello
    \/ test_database(ApiDiagEnvs)
    \/ generate_story(ApiRequests, StoreEnvs)
    \/ list_stories(StoreEnvs)

Spec == Init /\ [][Next]_vars

(***************************************************************************)
(* GET /test alone, over every condition of the database module.           *)
(***************************************************************************)
NextDiag == test_database(DiagEnvs)

SpecDiag == Init /\ [][NextDiag]_vars

(***************************************************************************)
(* The story generator alone: the inputs are drawn first, then lines       *)
(* 130-142 of generate_story are applied to them.                          *)
(***************************************************************************)
InitStory ==
    /\ store = <<>>
    /\ oid_counter = 1
    /\ request \in StoryInputs
    /\ env = NoEnv
    /\ response = NoResponse

NextStory ==
    /\ response = NoResponse
    /\ response' = Ok(story_and_illustration(request))
    /\ UNCHANGED <<store, oid_counter, request, env>>

SpecStory == InitStory /\ [][NextStory]_vars

(***************************************************************************)
(* Properties.                                                             *)
(***************************************************************************)
IsGenerate(req) == req.op = "generate_story"

HasPrefix(image_data) ==
    Len(image_data) >= 11 /\ SubSeq(image_data, 1, 11) = "data:image/"

\* the store accepted the insert of the request just served
Accepted(req, e) == IsGenerate(req) /\ HasPrefix(req.image_data) /\ e.kind = "store" /\ ~e.fails

\* C1: a generate-story request whose image_data does not start with
\* "data:image/" is answered 400 and leaves the stored entries as they were,
\* whatever its other fields and whatever ran before.
C1_InvalidImageRejected ==
    [][(IsGenerate(request') /\ ~HasPrefix(request'.image_data))
          => (response'.status = 400 /\ store' = store)]_vars

C1_Witness ==
    /\ IsGenerate(request)
    /\ ~HasPrefix(request.image_data)
    /\ request.image_data # ""
    /\ response.status = 400
    /\ Len(store) >= 2

\* what C2 says of a step that serves an accepted request, given the fields
\* the persisted document is to hold
OneDocumentAdded(fields) ==
    Accepted(request', env') =>
        /\ Len(store') = Len(store) + 1
        /\ SubSeq(store', 1, Len(store)) = store
        /\ LET d == store'[Len(store')]
           IN /\ \A f \in fields : f \in DOMAIN d /\ d[f] = request'[f]
              /\ d.story = response'.body.story
              /\ d.illustration = response'.body.illustration
              /\ response'.status = 200
              /\ response'.body.id = Str(d["_id"])

\* C2 as stated: an accepted generate-story request adds exactly one document,
\* which holds image_data, mood, expressions and prompt_hint as submitted plus
\* the generated story and illustration key, and the response's id is that
\* document's identifier.
C2_AllSubmittedFields ==
    [][OneDocumentAdded({"image_data", "mood", "expressions", "prompt_hint"})]_vars

\* C2 as amended: an accepted generate-story request adds exactly one document,
\* which holds image_data, mood and expressions as submitted plus the generated
\* story and illustration key (the hint is kept only inside the story text, not
\* as a field), and the response's id is the string form of that document's
\* identifier.
C2_FieldsPersisted ==
    [][/\ OneDocumentAdded({"image_data", "mood", "expressions"})
       /\ Accepted(request', env') =>
             DOMAIN store'[Len(store')] =
                {"_id", "image_data", "mood", "expressions", "story", "illustration"}]_vars

C2_Witness ==
    /\ Accepted(request, env)
    /\ request.prompt_hint = Some("rain")
    /\ response.status = 200
    /\ Len(store) = 3
    /\ response.body.id = "3"
    /\ store[3].mood = "SAD"

AllSpace(text) == \A i \in 1..Len(text) : SubSeq(text, i, i) \in Whitespace

\* a non-blank text without its leading and trailing whitespace
Trimmed(text) ==
    CHOOSE t \in {SubSeq(text, i, j) : i, j \in 1..Len(text)} :
        /\ t # ""
        /\ SubSeq(t, 1, 1) \notin Whitespace
        /\ SubSeq(t, Len(t), Len(t)) \notin Whitespace
        /\ \E i \in 1..Len(text) :
              /\ AllSpace(SubSeq(text, 1, i - 1))
              /\ SubSeq(text, i, i + Len(t) - 1) = t
              /\ AllSpace(SubSeq(text, i + Len(t), Len(text)))

IsBlank(hint) == hint = None \/ AllSpace(hint[1])

Generated == response.status = 200 /\ IsGenerate(request)

\* C3: with the hint omitted, empty or blank the story has no "A note from
\* you:" section; with a non-blank hint it has "A note from you: " followed by
\* the trimmed hint.
C3_HintSection ==
    Generated =>
        IF IsBlank(request.prompt_hint)
        THEN ~Contains(response.body.story, "A note from you:")
        ELSE Contains(response.body.story,
                      "A note from you: " \o Trimmed(request.prompt_hint[1]))

Listed == request.op = "list_stories" /\ response.status = 200

\* the entry is the stored document d under its public name: "id" holds the
\* string form of d's identifier, there is no "_id", the other fields are d's
PublicFormOf(entry, d) ==
    /\ DOMAIN entry = (DOMAIN d \ {"_id"}) \cup {"id"}
    /\ entry.id = Str(d["_id"])
    /\ \A f \in DOMAIN d \ {"_id"} : entry[f] = d[f]

\* C4: GET /api/stories?limit=N returns exactly min(N, number of persisted
\* entries) entries, each one a persisted entry with an "id" field holding the
\* string form of its identifier and no "_id" field, and no entry twice.
C4_LimitAndPublicId ==
    Listed =>
        /\ Len(response.body) = (IF request.limit <= Len(store) THEN request.limit ELSE Len(store))
        /\ \A k \in 1..Len(response.body) :
              /\ "id" \in DOMAIN response.body[k]
              /\ "_id" \notin DOMAIN response.body[k]
              /\ \E i \in 1..Len(store) : PublicFormOf(response.body[k], store[i])
        /\ \A k, l \in 1..Len(response.body) : k # l => response.body[k].id # response.body[l].id

C4_Witness ==
    /\ Listed
    /\ request.limit = 2
    /\ Len(store) = 3
    /\ Len(response.body) = 2

Included(i) == \E k \in 1..Len(response.body) : response.body[k].id = Str(store[i]["_id"])

\* C5: the entries GET /api/stories?limit=N returns are the most recently
\* persisted ones: no omitted entry was persisted later than a returned one.
C5_MostRecent ==
    Listed =>
        \A i, j \in 1..Len(store) : (Included(i) /\ ~Included(j)) => j < i

FixedMoods == {"happy", "sad", "angry", "fearful", "disgusted", "surprised", "neutral"}

PairedKey ==
    [happy |-> "sunny", sad |-> "rainy", angry |-> "flame", fearful |-> "moon",
     disgusted |-> "leaf", surprised |-> "spark", neutral |-> "cloud"]

Opening ==
    [happy |-> "Sunlight spilled across the scene",
     sad |-> "The world moved softly",
     angry |-> "The air crackled",
     fearful |-> "Shadows stretched long",
     disgusted |-> "Clarity arrived like a clean breeze",
     surprised |-> "A sudden spark",
     neutral |-> "Balanced and unhurried"]

\* the mood of the fixed set that the string names, letter case aside; neutral
\* when it names none
MoodOf(mood) == IF Lower(mood) \in FixedMoods THEN Lower(mood) ELSE "neutral"

\* C6: the story's template and the illustration key are those of the same
\* mood of the static table, the mood string compared case-insensitively; a
\* mood outside the fixed set, the empty string included, gives the neutral
\* template with "cloud".
C6_TemplateAndIllustrationPaired ==
    Generated =>
        /\ response.body.illustration = PairedKey[MoodOf(request.mood)]
        /\ StartsWith(response.body.story, Opening[MoodOf(request.mood)])
        /\ (Lower(request.mood) \notin FixedMoods => response.body.illustration = "cloud")

C6_Witness ==
    /\ Generated
    /\ request.mood = "aNgRy"
    /\ response.body.illustration = "flame"
    /\ StartsWith(response.body.story, "The air crackled")

DistinctScores(items) == \A i, j \in 1..Len(items) : i # j => items[i][2] # items[j][2]

\* the key of the item with exactly r - 1 items scored above it
KeyOfRank(items, r) ==
    LET i == CHOOSE i \in 1..Len(items) :
                 Cardinality({j \in 1..Len(items) : items[j][2] > items[i][2]}) = r - 1
    IN items[i][1]

ExpectedTone(req) ==
    IF req.expressions = <<>>
    THEN (IF req.mood = "" THEN "neutral" ELSE Lower(req.mood))
    ELSE LET n == IF Len(req.expressions) < 3 THEN Len(req.expressions) ELSE 3
         IN Join([r \in 1..n |-> KeyOfRank(req.expressions, r)], ", ")

\* C7: the story ends with the footer "Mood palette today: <tone>."; for a
\* non-empty mapping with distinct scores <tone> is the at most three names
\* with the highest scores, highest first, joined by ", "; for an empty mapping
\* it is the normalized mood name.
C7_Footer ==
    Generated =>
        /\ Contains(response.body.story, "\n\nMood palette today: ")
        /\ EndsWith(response.body.story, ".")
        /\ (request.expressions = <<>> \/ DistinctScores(request.expressions)) =>
              EndsWith(response.body.story,
                       "\n\nMood palette today: " \o ExpectedTone(request) \o ".")

C7_Witness ==
    /\ Generated
    /\ Len(request.expressions) = 4
    /\ DistinctScores(request.expressions)
    /\ request.expressions[4][2] = 90
    /\ request.expressions[1][2] = -10
    /\ EndsWith(response.body.story, "Mood palette today: " \o request.expressions[4][1]
                  \o ", " \o request.expressions[3][1] \o ", " \o request.expressions[2][1] \o ".")

StoreFailed == env.kind = "store" /\ env.fails

\* C8 as stated: when the store fails the request is answered 500 with a
\* message of at most 120 characters, and no success response.
C8_MessageAtMost120 ==
    StoreFailed =>
        /\ response.status = 500
        /\ "body" \notin DOMAIN response
        /\ "detail" \in DOMAIN response => Len(response.detail) <= 120

FirstChars(text, n) == IF Len(text) <= n THEN text ELSE SubSeq(text, 1, n)

\* C8 as amended: when the store fails during POST /api/generate-story or GET
\* /api/stories the request is answered 500, with no success body and no id.
\* When the error has a text, the detail is "Failed to store story: " or
\* "Failed to fetch stories: " followed by the first 120 characters of that
\* text (all of a shorter one), 143 and 145 characters at most as a whole; when
\* reading the error's text raises in turn, that exception leaves the handler
\* and the answer carries no detail of the handler's.
C8_ErrorTextCut ==
    StoreFailed =>
        /\ response.status = 500
        /\ "body" \notin DOMAIN response
        /\ env.printable =>
              /\ DOMAIN response = {"status", "detail"}
              /\ response.detail =
                    (IF IsGenerate(request) THEN "Failed to store story: "
                     ELSE "Failed to fetch stories: ") \o FirstChars(env.error, 120)
              /\ Len(response.detail) <= (IF IsGenerate(request) THEN 143 ELSE 145)
        /\ ~env.printable => "detail" \notin DOMAIN response

C8_Witness ==
    /\ StoreFailed
    /\ env.printable
    /\ IsGenerate(request)
    /\ Len(env.error) > 120
    /\ response.status = 500
    /\ Len(response.detail) = 143

DiagnosticFields ==
    {"backend", "database", "database_url", "database_name", "connection_status", "collections"}

\* C9: GET /test answers 200 in every condition of the database module, with
\* the six diagnostic fields, the failure (if any) as text in "database", and
\* at most 10 collection names.
C9_DiagnosticNeverFails ==
    request.op = "test_database" =>
        /\ response.status = 200
        /\ DOMAIN response.body = DiagnosticFields
        /\ Len(response.body.collections) <= 10
        /\ env.db \in {"import_fails", "name_fails", "list_fails"} =>
              Contains(response.body.database, "Error: ")
        /\ env.db = "none" => Contains(response.body.database, "not initialized")
        /\ env.db = "working" <=> response.body.database = "[ok] Connected & Working"

GetOps == {"read_root", "hello", "test_database", "list_stories"}

\* C10: across any sequence of requests a persisted entry is never deleted
\* and never changed, and the four GET operations leave the persisted entries
\* as they were.
C10_AppendOnly ==
    [][/\ Len(store') >= Len(store)
       /\ SubSeq(store', 1, Len(store)) = store
       /\ request'.op \in GetOps => store' = store]_vars

C10_Witness ==
    /\ Listed
    /\ Len(store) = 3
    /\ Len(response.body) = 3
    /\ "_id" \in DOMAIN store[1]
    /\ "id" \notin DOMAIN store[1]

====
